---- MODULE Spec2Model ----
(***************************************************************************)
(* Attendance automator: identity normalisation, window filter, same-day   *)
(* deduplication, week partition and counts, roster join, matrix output    *)
(* (backend/app/attendance_automator.py) and the service that runs the     *)
(* pipeline per request (backend/app/services/attendance_service.py).      *)
(*                                                                         *)
(* Text cells are sequences of one-character strings; a missing cell is    *)
(* NaN.  A timestamp is an integer (day * SlotsPerDay + slot), NaT when    *)
(* the cell could not be parsed.  A float that is a quotient is kept as    *)
(* an exact fraction <<numerator, denominator>>; 0/0 is the float nan.     *)
(***************************************************************************)
EXTENDS Integers, Sequences, FiniteSets, TLC

\* ---------------------------------------------------------------- bounds
MaxRows == 2
MaxRoster == 1
NumDates == 7
MaxClock == 2
NumRequests == 2

\* ------------------------------------------------------- program constants
SlotsPerDay == 2
WeekLen == 3
SixDates == 6
MaxPossible == 6
FillMaxPossible == 6

\* ------------------------------------------------------------ text values
NaN == <<"NaN">>
NaT == -1
\* a missing number in a numeric column
NaNNum == -1
EmptyStr == <<>>

\* the characters in use, in code-point order
Chars == <<" ", ".", "0", "1", "2", "9", "@", "A", "N", "\\", "a", "c", "d", "e",
           "f", "g", "i", "l", "m", "n", "o", "r", "s", "u">>

CharRank(c) == CHOOSE i \in 1..Len(Chars) : Chars[i] = c

RECURSIVE StrLess(_, _)
StrLess(s, t) ==
  IF t = <<>> THEN FALSE
  ELSE IF s = <<>> THEN TRUE
  ELSE IF Head(s) = Head(t) THEN StrLess(Tail(s), Tail(t))
  ELSE CharRank(Head(s)) < CharRank(Head(t))

isna(x) == x = NaN
notna(x) == x # NaN

RECURSIVE LStrip(_)
LStrip(s) == IF s # <<>> /\ Head(s) = " " THEN LStrip(Tail(s)) ELSE s

RECURSIVE RStrip(_)
RStrip(s) ==
  IF s # <<>> /\ s[Len(s)] = " " THEN RStrip(SubSeq(s, 1, Len(s) - 1)) ELSE s

\* str.strip()
Strip(s) == RStrip(LStrip(s))

LowerChar(c) == IF c = "A" THEN "a" ELSE IF c = "N" THEN "n" ELSE c

\* str.lower()
Lower(s) == [i \in 1..Len(s) |-> LowerChar(s[i])]

\* str.replace(" ", "")
RemoveSpaces(s) == SelectSeq(s, LAMBDA c : c # " ")

\* astype(str): a missing value becomes the text "nan"
AsStr(x) == IF isna(x) THEN <<"n", "a", "n">> ELSE x

\* Series.astype(str).str.strip()
StrStrip(x) == Strip(AsStr(x))

\* The regular expressions of COMMON_DOMAIN_FIXES, as written: in a raw
\* string "\\." is an escaped backslash followed by "any character".
AnyChar == "ANY"
COMMON_DOMAIN_FIXES ==
  << [bad  |-> <<"@", "u", "c", "s", "c", "e", "d", "u">>,
      good |-> <<"@", "u", "c", "s", "c", ".", "e", "d", "u">>],
     [bad  |-> <<"@", "u", "c", "s", "c", "\\", AnyChar, "e", "f", "u">>,
      good |-> <<"@", "u", "c", "s", "c", ".", "e", "d", "u">>],
     [bad  |-> <<"@", "u", "c", "s", "c", "\\", AnyChar, "i", "r", "g">>,
      good |-> <<"@", "u", "c", "s", "c", ".", "e", "d", "u">>],
     [bad  |-> <<"@", "u", "s", "c", "s", "\\", AnyChar, "e", "d", "u">>,
      good |-> <<"@", "u", "c", "s", "c", ".", "e", "d", "u">>],
     [bad  |-> <<"@", "g", "m", "a", "i", "l", "\\", AnyChar, "c", "o", "n">>,
      good |-> <<"@", "g", "m", "a", "i", "l", ".", "c", "o", "m">>] >>

\* the pattern, anchored by $, matches the end of s
MatchesAtEnd(s, bad) ==
  /\ Len(s) >= Len(bad)
  /\ \A i \in 1..Len(bad) :
        bad[i] = AnyChar \/ s[Len(s) - Len(bad) + i] = bad[i]

\* re.sub(bad, good, e)
ReSub(fix, e) ==
  IF MatchesAtEnd(e, fix.bad)
  THEN SubSeq(e, 1, Len(e) - Len(fix.bad)) \o fix.good
  ELSE e

RECURSIVE ApplyFixes(_, _)
ApplyFixes(fixes, e) ==
  IF fixes = <<>> THEN e ELSE ApplyFixes(Tail(fixes), ReSub(Head(fixes), e))

normalize_email(email) ==
  IF isna(email) THEN email
  ELSE ApplyFixes(COMMON_DOMAIN_FIXES, RemoveSpaces(Lower(Strip(email))))

\* pd.to_datetime(x, errors="coerce") of a cell <<day, slot>>; anything else
\* is unparseable
\* an unparseable cell falls back to the first slot of day 1
to_dt_default(x) == IF Len(x) = 2 THEN x[1] * SlotsPerDay + x[2] ELSE SlotsPerDay

to_dt(x) == IF Len(x) = 2 THEN x[1] * SlotsPerDay + x[2] ELSE NaT

\* Series.dt.date
DateOf(ts) == IF ts = NaT THEN NaT ELSE ts \div SlotsPerDay

\* ------------------------------------------------------------ sequences
Min(a, b) == IF a <= b THEN a ELSE b

Range(s) == {s[i] : i \in 1..Len(s)}

\* order of two-column sort keys
PairLess(a, b) == a[1] < b[1] \/ (a[1] = b[1] /\ a[2] < b[2])

\* stable sort of the rows of df by their sort keys: rows with equal keys
\* keep their order
StableSort(df, keys) ==
  LET n == Len(df)
      rank(i) == 1 + Cardinality({j \in 1..n :
                      \/ PairLess(keys[j], keys[i])
                      \/ (keys[j] = keys[i] /\ j < i)})
  IN [p \in 1..n |-> df[CHOOSE i \in 1..n : rank(i) = p]]

\* sorted(set) of integers
RECURSIVE SortedInts(_)
SortedInts(S) ==
  IF S = {} THEN <<>>
  ELSE LET m == CHOOSE x \in S : \A y \in S : x <= y
       IN <<m>> \o SortedInts(S \ {m})

\* the texts of S in ascending order
RECURSIVE SortedStrs(_)
SortedStrs(S) ==
  IF S = {} THEN <<>>
  ELSE LET m == CHOOSE x \in S : \A y \in S \ {x} : StrLess(x, y)
       IN <<m>> \o SortedStrs(S \ {m})

\* number of elements of s that lie in the set W
CountIn(s, W) == Cardinality({i \in 1..Len(s) : s[i] \in W})

\* integer sum of a sequence
RECURSIVE SumSeq(_)
SumSeq(s) == IF s = <<>> THEN 0 ELSE Head(s) + SumSeq(Tail(s))

\* ------------------------------------------------------------- fractions
FracNaN(q) == q[2] = 0
\* a >= b on floats: false when either side is nan
FracGe(a, b) == /\ ~FracNaN(a) /\ ~FracNaN(b)
                /\ a[1] * b[2] >= b[1] * a[2]
\* a == b on floats: false when either side is nan
FracEq(a, b) == /\ ~FracNaN(a) /\ ~FracNaN(b)
                /\ a[1] * b[2] = b[1] * a[2]

\* ------------------------------------------------------ load_attendance
AttCols == {"ts", "email", "id", "name"}

load_attendance_ok(att) ==
  ~("ts" \notin att.cols \/ ("email" \notin att.cols /\ "id" \notin att.cols))

identity_of(id, email, name) ==
  IF notna(id) /\ id # EmptyStr THEN id
  ELSE IF notna(email) /\ email # EmptyStr THEN email
  ELSE name

load_attendance(att) ==
  [i \in 1..Len(att.rows) |->
     LET raw   == att.rows[i]
         ts    == to_dt(raw.ts)
         email == IF "email" \in att.cols THEN normalize_email(raw.email) ELSE NaN
         id    == IF "id" \in att.cols THEN StrStrip(raw.id) ELSE NaN
         name  == IF "name" \in att.cols THEN StrStrip(raw.name) ELSE NaN
     IN [idx |-> i, ts |-> ts, date |-> DateOf(ts), email |-> email,
         id |-> id, name |-> name,
         identity |-> identity_of(id, email, name)]]

\* ------------------------------------------- filter_weeks, dedup_same_day
\* pd.to_datetime(iso).date() of a parameter <<day>>; anything else raises
date_ok(iso) == Len(iso) = 1
parse_date(iso) == iso[1]

\* a null date compares False with every bound
in_window(d, start, end) == d # NaT /\ d >= start /\ d <= end

filter_weeks(df, start_iso, end_iso) ==
  LET start == parse_date(start_iso)
      end   == parse_date(end_iso)
  IN SelectSeq(df, LAMBDA r : in_window(r.date, start, end))

\* drop_duplicates(subset, keep="first") on the key values keys: a row
\* stays when no earlier row has the same key
DropDuplicates(df, keys) ==
  LET keep == {i \in 1..Len(df) : \A j \in 1..(i - 1) : keys[j] # keys[i]}
      ord  == SortedInts(keep)
  IN [k \in 1..Len(ord) |-> df[ord[k]]]

\* the sort puts rows with equal keys in the reverse of their order
sort_by_date_ts_ties_reversed(df) ==
  LET n   == Len(df)
      rev == [i \in 1..n |-> df[n + 1 - i]]
  IN StableSort(rev, [i \in 1..n |-> <<rev[i].date, rev[i].ts>>])

\* sort_values(["__date", "__ts"])
sort_by_date_ts(df) ==
  StableSort(df, [i \in 1..Len(df) |-> <<df[i].date, df[i].ts>>])

\* sort_values("__ts")
sort_by_ts(df) ==
  StableSort(df, [i \in 1..Len(df) |-> <<0, df[i].ts>>])

\* keep="last": the latest record of each (identity, date) pair stays
dedup_keep_last(df) ==
  LET sorted == sort_by_date_ts(df)
      n      == Len(sorted)
      keep   == {i \in 1..n : \A j \in (i + 1)..n :
                    <<sorted[j].identity, sorted[j].date>>
                      # <<sorted[i].identity, sorted[i].date>>}
      ord    == SortedInts(keep)
  IN [k \in 1..Len(ord) |-> sorted[ord[k]]]

dedup_same_day(df) ==
  LET sorted == sort_by_date_ts(df)
  IN DropDuplicates(sorted,
                    [i \in 1..Len(sorted) |-> <<sorted[i].identity, sorted[i].date>>])

\* -------------------------------------------------------- compute_counts
\* s[lo:hi]
PySlice(s, lo, hi) == SubSeq(s, lo + 1, Min(hi, Len(s)))

lecture_dates_of(df_weeks) ==
  SortedInts({df_weeks[i].date : i \in 1..Len(df_weeks)} \ {NaT})

week1_of(dates) ==
  IF Len(dates) >= WeekLen THEN PySlice(dates, 0, WeekLen) ELSE dates

\* the second week is not cut off after the sixth date
week2_uncapped(dates) == PySlice(dates, WeekLen, Len(dates))

week2_of(dates) ==
  IF Len(dates) >= SixDates THEN PySlice(dates, WeekLen, SixDates)
  ELSE PySlice(dates, WeekLen, Len(dates))

\* sum(1 for d in dates if d in week)
count_in_week(dates, week) == CountIn(dates, Range(week))

\* the denominator follows the number of lecture dates observed
max_possible_observed(dates) == Len(dates)

\* cnt["max_possible"] = 6, whatever the calendar
max_possible_of(dates) == MaxPossible

percentage_of(week1_count, week2_count, max_possible) ==
  <<(week1_count + week2_count) * 100, max_possible>>

\* first row of df, in its order, that carries the identity
FirstRow(df, identity) ==
  df[CHOOSE i \in 1..Len(df) :
        /\ df[i].identity = identity
        /\ \A j \in 1..(i - 1) : df[j].identity # identity]

\* groupby drops rows whose key is missing and sorts the groups by key
compute_counts(df_weeks) ==
  LET lecture_dates == lecture_dates_of(df_weeks)
      week1 == week1_of(lecture_dates)
      week2 == week2_of(lecture_dates)
      keys  == SortedStrs({df_weeks[i].identity : i \in 1..Len(df_weeks)} \ {NaN})
  IN [k \in 1..Len(keys) |->
        LET attended == SortedInts({df_weeks[i].date : i \in
                           {j \in 1..Len(df_weeks) : df_weeks[j].identity = keys[k]}})
            w1    == count_in_week(attended, week1)
            w2    == count_in_week(attended, week2)
            first == FirstRow(df_weeks, keys[k])
        IN [identity |-> keys[k], attended_dates |-> attended,
            total_count |-> Len(attended),
            week1_count |-> w1, week2_count |-> w2,
            max_possible |-> max_possible_of(lecture_dates),
            percentage |-> percentage_of(w1, w2, max_possible_of(lecture_dates)),
            email |-> first.email, id |-> first.id, name |-> first.name]]

\* ---------------------------------------------------- load_gradebook_csv
load_gradebook_csv(gb) ==
  [i \in 1..Len(gb.rows) |->
     LET raw == gb.rows[i]
     IN [idx |-> i, Student |-> raw.Student, ID |-> raw.ID,
         SIS |-> raw.SIS, Email |-> raw.Email,
         Email_norm |-> IF "Email" \in gb.cols THEN normalize_email(raw.Email) ELSE NaN,
         SIS_norm |-> IF "SIS Login ID" \in gb.cols THEN normalize_email(raw.SIS) ELSE NaN,
         ID_str |-> IF "ID" \in gb.cols THEN StrStrip(raw.ID) ELSE NaN,
         disp_name |-> IF "Student" \in gb.cols THEN StrStrip(raw.Student) ELSE NaN]]

\* ------------------------------------------------------------- the joins
\* the counts columns of a roster row that matched nothing
NullCounts ==
  [identity |-> NaN, attended_dates |-> <<>>, total_count |-> NaNNum,
   week1_count |-> NaNNum, week2_count |-> NaNNum, max_possible |-> NaNNum,
   percentage |-> <<0, 0>>, email |-> NaN, id |-> NaN, name |-> NaN]

\* the roster columns of a table that was not joined to a roster
NullRoster ==
  [idx |-> 0, Student |-> NaN, ID |-> NaN, SIS |-> NaN, Email |-> NaN,
   Email_norm |-> NaN, SIS_norm |-> NaN, ID_str |-> NaN, disp_name |-> NaN]

\* Key columns are columns of text with nulls; the dtype coercion checks of
\* merge are not part of the model.
\* left.merge(right, left_on, right_on, how="left") on the key columns lk, rk:
\* left order is kept, a left row appears once per matching right row (null
\* keys match each other) and once, with nulls, when nothing matches
RECURSIVE MergeLeft(_, _, _, _, _)
MergeLeft(left, lk, right, rk, i) ==
  IF i > Len(left) THEN <<>>
  ELSE LET hits == SelectSeq([j \in 1..Len(right) |-> j], LAMBDA j : rk[j] = lk[i])
           rows == IF hits = <<>> THEN << [r |-> left[i], c |-> NullCounts] >>
                   ELSE [k \in 1..Len(hits) |-> [r |-> left[i], c |-> right[hits[k]]]]
       IN rows \o MergeLeft(left, lk, right, rk, i + 1)

merge_on_id(roster, counts) ==
  MergeLeft(roster, [i \in 1..Len(roster) |-> roster[i].ID_str],
            counts, [j \in 1..Len(counts) |-> StrStrip(counts[j].id)], 1)

merge_on_sis(roster, counts) ==
  MergeLeft(roster, [i \in 1..Len(roster) |-> roster[i].SIS_norm],
            counts, [j \in 1..Len(counts) |-> normalize_email(counts[j].email)], 1)

merge_on_email(roster, counts) ==
  MergeLeft(roster, [i \in 1..Len(roster) |-> roster[i].Email_norm],
            counts, [j \in 1..Len(counts) |-> normalize_email(counts[j].email)], 1)

\* (~m["week1_count"].isna()).mean() * 100.0 ; the mean of no rows is nan
matched_pct(m) ==
  <<100 * Cardinality({i \in 1..Len(m) : m[i].c.week1_count # NaNNum}), Len(m)>>

NoJoin == [present |-> FALSE, rows |-> <<>>, cov |-> <<0, 1>>]

join_id(counts_out, gbcols, roster) ==
  IF "ID" \notin gbcols THEN NoJoin
  ELSE LET m == merge_on_id(roster, counts_out)
       IN [present |-> TRUE, rows |-> m, cov |-> matched_pct(m)]

join_email(counts_out, gbcols, roster) ==
  IF "SIS Login ID" \in gbcols
  THEN LET m == merge_on_sis(roster, counts_out)
       IN [present |-> TRUE, rows |-> m, cov |-> matched_pct(m)]
  ELSE IF "Email" \in gbcols
  THEN LET m == merge_on_email(roster, counts_out)
       IN [present |-> TRUE, rows |-> m, cov |-> matched_pct(m)]
  ELSE NoJoin

\* ties go to the id join
try_join_modes_strict(counts_out, gbcols, roster) ==
  LET id == join_id(counts_out, gbcols, roster)
      em == join_email(counts_out, gbcols, roster)
  IN IF FracGe(em.cov, id.cov) /\ ~FracEq(em.cov, id.cov)
     THEN [present |-> em.present, rows |-> em.rows, mode |-> "email", cov |-> em.cov]
     ELSE [present |-> id.present, rows |-> id.rows, mode |-> "id", cov |-> id.cov]

try_join_modes(counts_out, gbcols, roster) ==
  LET id == join_id(counts_out, gbcols, roster)
      em == join_email(counts_out, gbcols, roster)
  IN IF FracGe(em.cov, id.cov)
     THEN [present |-> em.present, rows |-> em.rows, mode |-> "email", cov |-> em.cov]
     ELSE [present |-> id.present, rows |-> id.rows, mode |-> "id", cov |-> id.cov]

\* -------------------------------------------------------- finalize_output
\* pd.to_numeric(col).fillna(v)
fillna(x, v) == IF x = NaNNum THEN v ELSE x
fillna_frac(q, v) == IF FracNaN(q) THEN v ELSE q

\* merged carries the roster columns (a roster join) or only the counts
\* columns (join mode none); rows are <<roster part, counts part>>
finalize_output(rows, gbcols, joined) ==
  [cols |-> IF joined
            THEN {"Student", "week1_count", "week2_count", "total_count",
                  "max_possible", "percentage"}
                 \cup (gbcols \cap {"ID", "SIS Login ID", "Email"})
            ELSE {"Student", "week1_count", "week2_count", "total_count",
                  "max_possible", "percentage"},
   rows |-> [i \in 1..Len(rows) |->
      LET m == rows[i]
      IN [ridx |-> m.r.idx, identity |-> m.c.identity,
          Student |-> IF joined THEN m.r.disp_name ELSE m.c.name,
          ID |-> IF joined /\ "ID" \in gbcols THEN m.r.ID_str ELSE NaN,
          SIS |-> IF joined /\ "SIS Login ID" \in gbcols THEN m.r.SIS ELSE NaN,
          Email |-> IF joined /\ "Email" \in gbcols THEN m.r.Email ELSE NaN,
          week1_count |-> fillna(m.c.week1_count, 0),
          week2_count |-> fillna(m.c.week2_count, 0),
          total_count |-> fillna(m.c.total_count, 0),
          max_possible |-> fillna(m.c.max_possible, FillMaxPossible),
          percentage |-> fillna_frac(m.c.percentage, <<0, 1>>)]]]

\* the counts table renamed and projected, when there is no gradebook
counts_only_output(counts_out) ==
  [cols |-> {"Student", "ID", "Email", "week1_count", "week2_count",
             "total_count", "max_possible", "percentage"},
   rows |-> [i \in 1..Len(counts_out) |->
      LET c == counts_out[i]
      IN [ridx |-> 0, identity |-> c.identity,
          Student |-> c.name, ID |-> c.id, SIS |-> NaN, Email |-> c.email,
          week1_count |-> c.week1_count, week2_count |-> c.week2_count,
          total_count |-> c.total_count, max_possible |-> c.max_possible,
          percentage |-> c.percentage]]]

\* ----------------------------------------------------------- write_matrix
\* DataFrame.fillna(0) on a text column
fillna_text(x) == IF isna(x) THEN <<"0">> ELSE x

\* the indicator forgets whose record it is
matrix_cells_anyone(df_weeks, who, six) ==
  [k \in 1..Len(six) |->
     IF \E j \in 1..Len(df_weeks) : df_weeks[j].date = six[k] THEN 1 ELSE 0]

\* the 0/1 indicators of one identity over the selected dates
matrix_cells(df_weeks, who, six) ==
  [k \in 1..Len(six) |->
     IF notna(who) /\ \E j \in 1..Len(df_weeks) :
           df_weeks[j].identity = who /\ df_weeks[j].date = six[k]
     THEN 1 ELSE 0]

\* one row per identity in order of first check-in; pivot_table drops the
\* rows whose identity is missing, so a row with a missing identity gets 0
\* in every date column from the left merge and fillna(0)
write_matrix(df_weeks, six_dates) ==
  LET sorted == sort_by_ts(df_weeks)
      mini   == DropDuplicates(sorted, [i \in 1..Len(sorted) |-> sorted[i].identity])
  IN [i \in 1..Len(mini) |->
        LET who   == mini[i].identity
            cells == matrix_cells(df_weeks, who, six_dates)
            total == SumSeq(cells)
        IN [identity |-> who, Student |-> fillna_text(mini[i].name),
            ID |-> fillna_text(mini[i].id), Email |-> fillna_text(mini[i].email),
            cells |-> cells, total_count |-> total, max_possible |-> MaxPossible,
            percentage |-> <<total * 100, MaxPossible>>]]

\* ================================================================ state
VARIABLES
  req,            \* the request: uploaded tables and form parameters
  pc,             \* position of _run_processing
  error,          \* the exception that ended the run, "" when none
  attendance_df,  \* load_attendance(attendance_path)
  filtered,       \* dedup_same_day(filter_weeks(...))
  counts_out, lecture_dates, week1, week2, six_dates,
  join,           \* merged table, and the mode and coverage of the auto join
  output_df,      \* the finalized counts table
  counts_file, matrix_file,   \* the files written
  summary,        \* AttendanceSummary of the response
  clock, inv, files           \* concurrent invocations: UTC second, calls, output_dir

pipe_vars == <<req, pc, error, attendance_df, filtered, counts_out, lecture_dates,
               week1, week2, six_dates, join, output_df, counts_file, matrix_file,
               summary>>
conc_vars == <<clock, inv, files>>
vars == <<req, pc, error, attendance_df, filtered, counts_out, lecture_dates,
          week1, week2, six_dates, join, output_df, counts_file, matrix_file,
          summary, clock, inv, files>>

NoTable == [cols |-> {}, rows |-> <<>>]
NoFile == [written |-> FALSE, cols |-> {}, rows |-> <<>>]
NoMerge == [present |-> FALSE, rows |-> <<>>, mode |-> "", cov |-> <<0, 1>>]
NoSummary == [students_total |-> 0, students_with_attendance |-> 0,
              coverage_pct |-> <<0, 1>>, lecture_dates |-> <<>>]

\* the state of a run before its first statement
PipeStart ==
  /\ pc = "start" /\ error = ""
  /\ attendance_df = <<>> /\ filtered = <<>> /\ counts_out = <<>>
  /\ lecture_dates = <<>> /\ week1 = <<>> /\ week2 = <<>> /\ six_dates = <<>>
  /\ join = NoMerge /\ output_df = NoTable
  /\ counts_file = NoFile /\ matrix_file = NoFile /\ summary = NoSummary

NoInvocation == [pc |-> "idle", prefix |-> "", upload |-> 0, stamp |-> 0,
                 counts_path |-> <<>>, matrix_path |-> <<>>, matrix |-> FALSE]
ConcIdle ==
  /\ clock = 0
  /\ inv = [r \in 1..NumRequests |-> NoInvocation]
  /\ files = {}

\* ----------------------------------------------------- _run_processing
Fail(kind) ==
  /\ pc' = "failed" /\ error' = kind

\* line 79
LoadAttendance ==
  /\ pc = "start"
  /\ IF load_attendance_ok(req.attendance)
     THEN /\ attendance_df' = load_attendance(req.attendance)
          /\ pc' = "loaded" /\ error' = error
     ELSE /\ Fail("ValueError") /\ attendance_df' = attendance_df
  /\ UNCHANGED <<req, filtered, counts_out, lecture_dates, week1, week2, six_dates,
                 join, output_df, counts_file, matrix_file, summary, conc_vars>>

\* line 80
FilterDedup ==
  /\ pc = "loaded"
  /\ IF date_ok(req.start_date) /\ date_ok(req.end_date)
     THEN /\ filtered' = dedup_same_day(
                           filter_weeks(attendance_df, req.start_date, req.end_date))
          /\ pc' = "filtered" /\ error' = error
     ELSE /\ Fail("DateParseError") /\ filtered' = filtered
  /\ UNCHANGED <<req, attendance_df, counts_out, lecture_dates, week1, week2, six_dates,
                 join, output_df, counts_file, matrix_file, summary, conc_vars>>

\* lines 81-82
ComputeCounts ==
  /\ pc = "filtered"
  /\ counts_out' = compute_counts(filtered)
  /\ lecture_dates' = lecture_dates_of(filtered)
  /\ week1' = week1_of(lecture_dates')
  /\ week2' = week2_of(lecture_dates')
  /\ six_dates' = PySlice(week1' \o week2', 0, SixDates)
  /\ pc' = "counted"
  /\ UNCHANGED <<req, error, attendance_df, filtered, join, output_df, counts_file,
                 matrix_file, summary, conc_vars>>

Merged(rows) == [present |-> TRUE, rows |-> rows, mode |-> "", cov |-> <<0, 1>>]

\* the merged table of lines 84-98, or the name of the exception raised
JoinResult(counts, gbcols, roster, join_mode) ==
  IF join_mode = "auto"
  THEN LET j == try_join_modes(counts, gbcols, roster)
       IN [err |-> IF j.present THEN "" ELSE "AttributeError", joined |-> TRUE, m |-> j]
  ELSE IF join_mode = "id"
  THEN IF "ID" \in gbcols
       THEN [err |-> "", joined |-> TRUE, m |-> Merged(merge_on_id(roster, counts))]
       ELSE [err |-> "KeyError", joined |-> TRUE, m |-> NoMerge]
  ELSE IF join_mode = "email"
  THEN IF "SIS Login ID" \in gbcols
       THEN [err |-> "", joined |-> TRUE, m |-> Merged(merge_on_sis(roster, counts))]
       ELSE IF "Email" \in gbcols
       THEN [err |-> "", joined |-> TRUE, m |-> Merged(merge_on_email(roster, counts))]
       ELSE [err |-> "KeyError", joined |-> TRUE, m |-> NoMerge]
  ELSE [err |-> "", joined |-> FALSE,
        m |-> Merged([i \in 1..Len(counts) |-> [r |-> NullRoster, c |-> counts[i]]])]

\* lines 84-103
JoinRoster ==
  /\ pc = "counted"
  /\ IF req.has_gradebook
     THEN LET gbcols == req.gradebook.cols
              roster == load_gradebook_csv(req.gradebook)
              res    == JoinResult(counts_out, gbcols, roster, req.join_mode)
          IN /\ join' = res.m
             /\ counts_out' = IF req.join_mode = "id" /\ res.err = ""
                              THEN [i \in 1..Len(counts_out) |->
                                      [counts_out[i] EXCEPT !.id = StrStrip(@)]]
                              ELSE counts_out
             /\ IF res.err = ""
                THEN /\ output_df' = finalize_output(res.m.rows, gbcols, res.joined)
                     /\ pc' = "joined" /\ error' = error
                ELSE /\ Fail(res.err) /\ output_df' = output_df
     ELSE /\ output_df' = counts_only_output(counts_out)
          /\ pc' = "joined"
          /\ UNCHANGED <<error, join, counts_out>>
  /\ UNCHANGED <<req, attendance_df, filtered, lecture_dates, week1, week2, six_dates,
                 counts_file, matrix_file, summary, conc_vars>>

\* lines 105-109
WriteCounts ==
  /\ pc = "joined"
  /\ counts_file' = [written |-> TRUE, cols |-> output_df.cols, rows |-> output_df.rows]
  /\ pc' = "counts_written"
  /\ UNCHANGED <<req, error, attendance_df, filtered, counts_out, lecture_dates, week1,
                 week2, six_dates, join, output_df, matrix_file, summary, conc_vars>>

\* lines 111-119
WriteMatrix ==
  /\ pc = "counts_written"
  /\ req.matrix
  /\ matrix_file' = [written |-> TRUE, cols |-> Range(six_dates),
                     rows |-> write_matrix(filtered, six_dates)]
  /\ pc' = "matrix_written"
  /\ UNCHANGED <<req, error, attendance_df, filtered, counts_out, lecture_dates, week1,
                 week2, six_dates, join, output_df, counts_file, summary, conc_vars>>

\* lines 126-147
Respond ==
  /\ pc = "matrix_written" \/ (pc = "counts_written" /\ ~req.matrix)
  /\ LET n    == Len(output_df.rows)
         with == Cardinality({i \in 1..n : output_df.rows[i].total_count > 0})
     IN summary' = [students_total |-> n, students_with_attendance |-> with,
                    coverage_pct |-> IF n # 0 THEN <<with * 100, n>> ELSE <<0, 1>>,
                    lecture_dates |-> lecture_dates]
  /\ pc' = "done"
  /\ UNCHANGED <<req, error, attendance_df, filtered, counts_out, lecture_dates, week1,
                 week2, six_dates, join, output_df, counts_file, matrix_file, conc_vars>>

Next ==
  \/ LoadAttendance
  \/ FilterDedup
  \/ ComputeCounts
  \/ JoinRoster
  \/ WriteCounts
  \/ WriteMatrix
  \/ Respond

\* ------------------------------------------- AttendanceService.process
\* Several calls of process are in flight; each persists its upload under a
\* fresh uuid4 name, then _run_processing runs on an executor thread and
\* names its outputs by prefix and UTC second.
Prefixes == {"", "cse20"}

\* out_prefix or "attendance"
safe_prefix(out_prefix) == IF out_prefix = "" THEN "attendance" ELSE out_prefix

\* f"{safe_prefix}_{timestamp}_attendance_counts.csv" in output_dir
counts_path_of(out_prefix, timestamp) ==
  <<"outputs", safe_prefix(out_prefix), timestamp, "attendance_counts">>

\* f"{safe_prefix}_{timestamp}_attendance_matrix.csv" in output_dir
matrix_path_of(out_prefix, timestamp) ==
  <<"outputs", safe_prefix(out_prefix), timestamp, "attendance_matrix">>

\* f"{uuid4().hex}{suffix}" in upload_dir: a name no earlier upload has
upload_path_of(uuid) == <<"uploads", "", uuid, "upload">>

fresh_uuid == 1 + Cardinality({r \in 1..NumRequests : inv[r].upload # 0})

\* the UTC clock passes to the next second
Tick ==
  /\ clock < MaxClock
  /\ clock' = clock + 1
  /\ UNCHANGED <<inv, files, pipe_vars>>

\* lines 42-55: persist the upload, hand the pipeline to the executor
Process(r, out_prefix, matrix) ==
  /\ inv[r].pc = "idle"
  /\ inv' = [inv EXCEPT ![r] = [@ EXCEPT !.pc = "queued", !.prefix = out_prefix,
                                          !.matrix = matrix, !.upload = fresh_uuid]]
  /\ files' = files \cup {[path |-> upload_path_of(fresh_uuid), by |-> r]}
  /\ UNCHANGED <<clock, pipe_vars>>

\* lines 79-108: the pipeline ran; the output names take the current second
StampPaths(r) ==
  /\ inv[r].pc = "queued"
  /\ inv' = [inv EXCEPT ![r] = [@ EXCEPT !.pc = "stamped", !.stamp = clock,
                 !.counts_path = counts_path_of(inv[r].prefix, clock),
                 !.matrix_path = IF inv[r].matrix
                                 THEN matrix_path_of(inv[r].prefix, clock) ELSE <<>>]]
  /\ UNCHANGED <<clock, files, pipe_vars>>

\* line 109: create or truncate the counts file and write it
WriteCountsFile(r) ==
  /\ inv[r].pc = "stamped"
  /\ files' = files \cup {[path |-> inv[r].counts_path, by |-> r]}
  /\ inv' = [inv EXCEPT ![r].pc = "counts_written"]
  /\ UNCHANGED <<clock, pipe_vars>>

\* lines 112-115
WriteMatrixFile(r) ==
  /\ inv[r].pc = "counts_written"
  /\ inv[r].matrix
  /\ files' = files \cup {[path |-> inv[r].matrix_path, by |-> r]}
  /\ inv' = [inv EXCEPT ![r].pc = "matrix_written"]
  /\ UNCHANGED <<clock, pipe_vars>>

\* lines 141-147 and 57
Return(r) ==
  /\ inv[r].pc = "matrix_written" \/ (inv[r].pc = "counts_written" /\ ~inv[r].matrix)
  /\ inv' = [inv EXCEPT ![r].pc = "returned"]
  /\ UNCHANGED <<clock, files, pipe_vars>>

NextConc ==
  \/ Tick
  \/ \E r \in 1..NumRequests, out_prefix \in Prefixes, matrix \in BOOLEAN :
        Process(r, out_prefix, matrix)
  \/ \E r \in 1..NumRequests : StampPaths(r)
  \/ \E r \in 1..NumRequests : WriteCountsFile(r)
  \/ \E r \in 1..NumRequests : WriteMatrixFile(r)
  \/ \E r \in 1..NumRequests : Return(r)

\* =============================================================== inputs
\* tables of 1..n rows over the row set R
TablesOver(R, n) == UNION {[1..k -> R] : k \in 1..n}
TablesFrom0(R, n) == {<<>>} \cup TablesOver(R, n)

Cells(cols, col, S) == IF col \in cols THEN S ELSE {NaN}

NoGradebook == [cols |-> {}, rows |-> <<>>]

\* --- noisy identity cells: any subset of the attendance columns, cells that
\* are missing, blank, padded or upper-case, timestamps that do not parse
IdentityRows(cols) ==
  [ts    : IF "ts" \in cols THEN {<<>>, <<1, 0>>} ELSE {<<>>},
   email : Cells(cols, "email", {NaN, <<" ">>, <<"A", "@", "u", " ">>}),
   id    : Cells(cols, "id", {NaN, <<" ">>, <<" ", "1">>}),
   name  : Cells(cols, "name", {NaN, <<"N">>})]

IdentityRequest(cols, rows) ==
  [attendance |-> [cols |-> cols, rows |-> rows],
   has_gradebook |-> FALSE, gradebook |-> NoGradebook,
   start_date |-> <<1>>, end_date |-> <<2>>,
   join_mode |-> "auto", matrix |-> TRUE]

\* --- roster joins: counts rows with and without ID and email, rosters with
\* any subset of the key columns and 0..MaxRoster entries, every join mode
JoinAttRows ==
  {r \in [ts    : {<<1, 0>>},
          email : {NaN, <<"a", "@", "u">>},
          id    : {NaN, <<"1">>, <<"2">>},
          name  : {<<"N">>}] : notna(r.email) \/ notna(r.id)}

JoinRosterRows(cols) ==
  [Student : {<<"N">>},
   ID      : Cells(cols, "ID", {NaN, <<"1">>}),
   SIS     : Cells(cols, "SIS Login ID", {NaN, <<"a", "@", "u">>}),
   Email   : Cells(cols, "Email", {<<"A", "@", "u">>})]

JoinModes == {"auto", "id", "email", "none"}

JoinGradebookCols == {{"Student"} \cup k : k \in SUBSET {"ID", "SIS Login ID", "Email"}}

JoinRequest(rows, gbcols, gbrows, mode) ==
  [attendance |-> [cols |-> AttCols, rows |-> rows],
   has_gradebook |-> TRUE, gradebook |-> [cols |-> gbcols, rows |-> gbrows],
   start_date |-> <<1>>, end_date |-> <<1>>,
   join_mode |-> mode, matrix |-> TRUE]

\* --- lecture calendars: student 1 attends any set of the days 1..NumDates,
\* student 2 none or all of them, and a check-in without any identity may
\* fall on the last day; windows that are whole, short, reversed, unparseable
Descending(S) ==
  LET a == SortedInts(S) IN [i \in 1..Len(a) |-> a[Len(a) + 1 - i]]

WeeksRow(id, email, day, slot) ==
  [ts |-> <<day, slot>>, email |-> email, id |-> id, name |-> NaN]

WeeksTable(S1, S2, ghost) ==
  LET d1 == Descending(S1)
      d2 == SortedInts(S2)
  IN [i \in 1..Len(d1) |-> WeeksRow(<<"1">>, <<"a", "@", "u">>, d1[i], 1)]
     \o [i \in 1..Len(d2) |-> WeeksRow(<<" ", "2">>, NaN, d2[i], 0)]
     \o (IF ghost THEN <<WeeksRow(<<" ">>, NaN, NumDates, 0)>> ELSE <<>>)

WeeksGradebook ==
  [cols |-> {"Student", "ID", "Email"},
   rows |-> << [Student |-> <<"N">>, ID |-> <<"1">>, SIS |-> NaN,
                Email |-> <<"A", "@", "u">>],
               [Student |-> <<"N">>, ID |-> <<"9">>, SIS |-> NaN,
                Email |-> <<"c", "@", "u">>] >>]

WeeksWindows ==
  {<< <<1>>, <<NumDates>> >>, << <<2>>, <<NumDates>> >>,
   << <<NumDates>>, <<1>> >>, << <<>>, <<NumDates>> >>}

WeeksRequest(S1, S2, ghost, gb, w, mx) ==
  [attendance |-> [cols |-> {"ts", "id", "email"}, rows |-> WeeksTable(S1, S2, ghost)],
   has_gradebook |-> gb,
   gradebook |-> IF gb THEN WeeksGradebook ELSE NoGradebook,
   start_date |-> w[1], end_date |-> w[2],
   join_mode |-> "auto", matrix |-> mx]

\* --- repeated check-ins: two students checking in on days 1 and 2, in either
\* slot of the day, any number of times and in any row order; windows over
\* both days or one of them
DedupRows ==
  [ts    : {<<1, 0>>, <<1, 1>>, <<2, 0>>, <<2, 1>>},
   email : {NaN},
   id    : {<<"1">>, <<"2">>},
   name  : {NaN}]

DedupWindows == {<< <<1>>, <<2>> >>, << <<1>>, <<1>> >>, << <<2>>, <<2>> >>}

DedupRequest(rows, w) ==
  [attendance |-> [cols |-> {"ts", "id"}, rows |-> rows],
   has_gradebook |-> FALSE, gradebook |-> NoGradebook,
   start_date |-> w[1], end_date |-> w[2],
   join_mode |-> "auto", matrix |-> TRUE]

\* --- mistyped addresses: the local part "a" with each domain of the
\* correction list, with a correct domain, with padding and upper case, and
\* with a backslash before the mistyped ending
EmailDomains ==
  {<<"@", "u", "c", "s", "c", "e", "d", "u">>,
   <<"@", "u", "c", "s", "c", ".", "e", "f", "u">>,
   <<"@", "u", "c", "s", "c", ".", "i", "r", "g">>,
   <<"@", "u", "s", "c", "s", ".", "e", "d", "u">>,
   <<"@", "g", "m", "a", "i", "l", ".", "c", "o", "n">>,
   <<"@", "u", "c", "s", "c", ".", "e", "d", "u">>,
   <<"@", "u", "c", "s", "c", "\\", ".", "e", "f", "u">>}

EmailCells ==
  {<<"a">> \o d : d \in EmailDomains}
    \cup {<<" ", "A", " ">> \o d \o <<" ">> : d \in EmailDomains}

EmailRows == [ts : {<<1, 0>>}, email : EmailCells, id : {NaN}, name : {NaN}]

EmailRequest(rows) ==
  [attendance |-> [cols |-> {"ts", "email"}, rows |-> rows],
   has_gradebook |-> FALSE, gradebook |-> NoGradebook,
   start_date |-> <<1>>, end_date |-> <<1>>,
   join_mode |-> "auto", matrix |-> TRUE]

\* ======================================================== specifications
Init ==
  /\ \E gbcols \in JoinGradebookCols, mode \in JoinModes :
       \E rows \in TablesOver(JoinAttRows, MaxRows),
          gbrows \in TablesFrom0(JoinRosterRows(gbcols), MaxRoster) :
         req = JoinRequest(rows, gbcols, gbrows, mode)
  /\ PipeStart /\ ConcIdle
Spec == Init /\ [][Next]_vars

InitIdentity ==
  /\ \E cols \in SUBSET AttCols :
       \E rows \in TablesOver(IdentityRows(cols), MaxRows) :
         req = IdentityRequest(cols, rows)
  /\ PipeStart /\ ConcIdle
SpecIdentity == InitIdentity /\ [][Next]_vars

InitWeeks ==
  /\ \E S1 \in SUBSET (1..NumDates), S2 \in {{}, 1..NumDates}, ghost \in BOOLEAN,
        gb \in BOOLEAN, w \in WeeksWindows, mx \in BOOLEAN :
         /\ WeeksTable(S1, S2, ghost) # <<>>
         /\ req = WeeksRequest(S1, S2, ghost, gb, w, mx)
  /\ PipeStart /\ ConcIdle
SpecWeeks == InitWeeks /\ [][Next]_vars

InitDedup ==
  /\ \E rows \in TablesOver(DedupRows, MaxRows + 1), w \in DedupWindows :
         req = DedupRequest(rows, w)
  /\ PipeStart /\ ConcIdle
SpecDedup == InitDedup /\ [][Next]_vars

InitEmail ==
  /\ \E rows \in TablesOver(EmailRows, MaxRows) : req = EmailRequest(rows)
  /\ PipeStart /\ ConcIdle
SpecEmail == InitEmail /\ [][Next]_vars

\* concurrent calls of the service; the pipeline contents play no part
InitConc ==
  /\ req = [attendance |-> NoTable, has_gradebook |-> FALSE, gradebook |-> NoGradebook,
            start_date |-> <<1>>, end_date |-> <<1>>, join_mode |-> "auto",
            matrix |-> FALSE]
  /\ PipeStart /\ ConcIdle
SpecConc == InitConc /\ [][NextConc]_vars

\* =============================================================== claims
KeyCols == {"ID", "SIS Login ID", "Email"}
AfterJoin == {"joined", "counts_written", "matrix_written", "done"}
JoinFailed == pc = "failed" /\ error \in {"AttributeError", "KeyError"}
\* lines 84-99 have run, to their end or to an exception
JoinAttempted == pc \in AfterJoin \/ JoinFailed

TheRoster == load_gradebook_csv(req.gradebook)

\* roster entry i matches no counts row on any key column the roster has
Unmatched(i) ==
  \A j \in 1..Len(counts_out) :
    /\ "ID" \in req.gradebook.cols => TheRoster[i].ID_str # StrStrip(counts_out[j].id)
    /\ "SIS Login ID" \in req.gradebook.cols =>
          TheRoster[i].SIS_norm # normalize_email(counts_out[j].email)
    /\ "Email" \in req.gradebook.cols =>
          TheRoster[i].Email_norm # normalize_email(counts_out[j].email)

ZeroRow(o) ==
  /\ o.week1_count = 0 /\ o.week2_count = 0 /\ o.total_count = 0
  /\ FracEq(o.percentage, <<0, 1>>)

\* the roster has a key column the join mode can use
ModeHasKey ==
  \/ req.join_mode = "auto" /\ req.gradebook.cols \cap KeyCols # {}
  \/ req.join_mode = "id" /\ "ID" \in req.gradebook.cols
  \/ req.join_mode = "email" /\ req.gradebook.cols \cap {"SIS Login ID", "Email"} # {}

\* C1: in join modes auto, id and email every roster entry without a matching
\* attendance identity is in the finalized output with week1_count,
\* week2_count, total_count and percentage all 0, and the run does not fail,
\* whichever key columns the roster carries (stated here for the rosters that
\* have a key column the mode can use).
C1_UnmatchedRosterEntryKept ==
  (req.has_gradebook /\ ModeHasKey /\ JoinAttempted)
    => \A i \in 1..Len(req.gradebook.rows) :
         Unmatched(i) =>
           /\ error = ""
           /\ \E k \in 1..Len(output_df.rows) :
                 output_df.rows[k].ridx = i /\ ZeroRow(output_df.rows[k])

\* C2: in join mode auto, with a roster that has at least one key column,
\* try_join_modes returns a joined table built on a key column of the roster;
\* it never returns an absent table and the run does not end in an error.
C2_AutoJoinResolves ==
  (/\ req.has_gradebook /\ req.join_mode = "auto"
   /\ req.gradebook.cols \cap KeyCols # {}
   /\ JoinAttempted)
    => /\ join.present
       /\ error = ""
       /\ join.mode = "id" => "ID" \in req.gradebook.cols
       /\ join.mode = "email" => req.gradebook.cols \cap {"SIS Login ID", "Email"} # {}

IdCov == join_id(counts_out, req.gradebook.cols, TheRoster).cov
EmCov == join_email(counts_out, req.gradebook.cols, TheRoster).cov
\* the two floats are the same value (nan taken as a value)
SameCov(a, b) == (FracNaN(a) /\ FracNaN(b)) \/ FracEq(a, b)
MaxCov(a, b) == IF FracGe(a, b) THEN a ELSE b

AutoJoinSelection ==
  /\ SameCov(join.cov, MaxCov(IdCov, EmCov))
  /\ FracGe(join.cov, IdCov) /\ FracGe(join.cov, EmCov)
  /\ SameCov(IdCov, EmCov) => join.mode = "email"

\* C3 as stated: in join mode auto the reported coverage is the maximum of the
\* id-join and email-join coverages, and equal coverages select the email join.
C3_Original ==
  (req.has_gradebook /\ req.join_mode = "auto" /\ JoinAttempted)
    => /\ SameCov(join.cov, MaxCov(IdCov, EmCov))
       /\ SameCov(IdCov, EmCov) => join.mode = "email"

\* C3: in join mode auto with a roster of at least one entry, the reported
\* coverage equals the maximum of the id-join and email-join coverages (it is
\* >= both), and when the two are equal the email join is selected.
C3_AutoCoverageIsMax ==
  (/\ req.has_gradebook /\ req.join_mode = "auto" /\ JoinAttempted
   /\ Len(req.gradebook.rows) >= 1)
    => AutoJoinSelection

\* a tie at a positive coverage between two real joins, resolved to email
C3_Witness ==
  /\ req.has_gradebook /\ req.join_mode = "auto" /\ pc \in AfterJoin
  /\ Len(req.gradebook.rows) >= 1
  /\ {"ID", "Email"} \subseteq req.gradebook.cols
  /\ FracEq(IdCov, EmCov) /\ IdCov[1] > 0
  /\ join.mode = "email" /\ join.present

AfterCounts == {"counted"} \cup AfterJoin
AfterFilter == {"filtered"} \cup AfterCounts
WindowReversed ==
  /\ date_ok(req.start_date) /\ date_ok(req.end_date)
  /\ parse_date(req.start_date) > parse_date(req.end_date)

\* C4: when the start date is after the end date the run fails with a
\* date-range error before any output is written: it never completes and
\* never writes a counts or a matrix file.
C4_ReversedWindowFails ==
  WindowReversed =>
    /\ pc # "done"
    /\ ~counts_file.written
    /\ ~matrix_file.written

\* the first non-empty of: trimmed ID, normalized email, raw name
FirstNonEmpty(cols, raw) ==
  LET id    == IF "id" \in cols /\ notna(raw.id) THEN Strip(raw.id) ELSE EmptyStr
      email == IF "email" \in cols /\ notna(raw.email)
               THEN normalize_email(raw.email) ELSE EmptyStr
  IN IF id # EmptyStr THEN id
     ELSE IF email # EmptyStr THEN email
     ELSE IF "name" \in cols THEN raw.name ELSE NaN

\* C5: load_attendance gives every record the first non-empty value of
\* trimmed ID, normalized email, raw name as its identity; a record whose ID
\* cell is missing or blank and whose email is present gets the normalized
\* email.
C5_IdentityPriority ==
  pc \in {"loaded"} \cup AfterFilter =>
    \A i \in 1..Len(attendance_df) :
      attendance_df[i].identity =
        FirstNonEmpty(req.attendance.cols, req.attendance.rows[i])

SixPolicy(o) ==
  /\ o.max_possible = 6
  /\ FracEq(o.percentage, <<(o.week1_count + o.week2_count) * 100, 6>>)

\* C6: every row of the counts output (matched, unmatched, or without a
\* roster) has max_possible = 6 and percentage = (week1_count + week2_count)
\* / 6 * 100, whatever the number of lecture dates observed.
C6_FixedDenominator ==
  /\ pc \in AfterJoin => \A k \in 1..Len(output_df.rows) : SixPolicy(output_df.rows[k])
  /\ counts_file.written =>
       \A k \in 1..Len(counts_file.rows) : SixPolicy(counts_file.rows[k])

\* four lecture dates, one student attended all four: 4/6*100; and a roster
\* entry nobody matched is in the same file
C6_Witness ==
  /\ counts_file.written /\ req.has_gradebook
  /\ Len(lecture_dates) = 4
  /\ \E k \in 1..Len(counts_file.rows) :
        /\ counts_file.rows[k].week1_count = 3 /\ counts_file.rows[k].week2_count = 1
        /\ counts_file.rows[k].total_count = 4
        /\ counts_file.rows[k].percentage = <<400, 6>>
  /\ \E k \in 1..Len(counts_file.rows) :
        isna(counts_file.rows[k].identity) /\ ZeroRow(counts_file.rows[k])

\* the dates of the records of the window, and of one identity
WindowDates == {filtered[i].date : i \in 1..Len(filtered)}
AttendedBy(who) ==
  {filtered[i].date : i \in {j \in 1..Len(filtered) : filtered[j].identity = who}}

\* C7: Week1 is the first min(3, n) and Week2 the 4th to 6th of the n
\* ascending distinct lecture dates of the window; they are disjoint and later
\* dates are in neither; week1_count and week2_count are the numbers of the
\* identity's attended dates in Week1 and Week2, each between 0 and 3.
C7_WeekPartition ==
  pc \in AfterCounts =>
    LET n == Len(lecture_dates) IN
    /\ Range(lecture_dates) = WindowDates
    /\ \A a, b \in 1..n : a < b => lecture_dates[a] < lecture_dates[b]
    /\ week1 = [k \in 1..Min(3, n) |-> lecture_dates[k]]
    /\ week2 = [k \in 1..(Min(6, n) - Min(3, n)) |-> lecture_dates[3 + k]]
    /\ Range(week1) \cap Range(week2) = {}
    /\ \A k \in 7..n : lecture_dates[k] \notin Range(week1) \cup Range(week2)
    /\ \A k \in 1..Len(counts_out) :
         LET c == counts_out[k] IN
         /\ c.week1_count = Cardinality(AttendedBy(c.identity) \cap Range(week1))
         /\ c.week2_count = Cardinality(AttendedBy(c.identity) \cap Range(week2))
         /\ 0 <= c.week1_count /\ c.week1_count <= 3
         /\ 0 <= c.week2_count /\ c.week2_count <= 3

\* seven lecture dates: an identity that attended all of them counts 3 + 3
C7_Witness ==
  /\ pc \in AfterCounts
  /\ Len(lecture_dates) = 7 /\ Len(week1) = 3 /\ Len(week2) = 3
  /\ \E k \in 1..Len(counts_out) :
        /\ counts_out[k].total_count = 7
        /\ counts_out[k].week1_count = 3 /\ counts_out[k].week2_count = 3

\* the attendance table without the rows whose timestamp cell does not parse
WellFormed ==
  [cols |-> req.attendance.cols,
   rows |-> SelectSeq(req.attendance.rows, LAMBDA r : Len(r.ts) = 2)]
BadRows == {i \in 1..Len(req.attendance.rows) : Len(req.attendance.rows[i].ts) # 2}
NoIdx(df) == [i \in 1..Len(df) |-> [df[i] EXCEPT !.idx = 0]]
WellFormedFiltered ==
  dedup_same_day(filter_weeks(load_attendance(WellFormed), req.start_date, req.end_date))

\* C9: a record whose timestamp cell cannot be parsed does not abort the run;
\* it gets a null date, is outside every window, and adds nothing to the
\* lecture dates, the counts or the matrix: the run goes as it does on the
\* well-formed records alone.
C9_BadTimestampSkipped ==
  /\ (pc # "start" /\ load_attendance_ok(req.attendance)) => error # "ValueError"
  /\ pc \in {"loaded"} \cup AfterFilter =>
       \A i \in BadRows : attendance_df[i].ts = NaT /\ attendance_df[i].date = NaT
  /\ pc \in AfterFilter =>
       /\ error = ""
       /\ \A k \in 1..Len(filtered) : filtered[k].idx \notin BadRows
       /\ NoIdx(filtered) = NoIdx(WellFormedFiltered)
  /\ pc \in AfterCounts =>
       /\ lecture_dates = lecture_dates_of(WellFormedFiltered)
       /\ counts_out = compute_counts(WellFormedFiltered)
  /\ matrix_file.written =>
       matrix_file.rows = write_matrix(WellFormedFiltered, six_dates)

\* a run over a bad row and a good row that reached its end with the good
\* row counted
C9_Witness ==
  /\ pc = "done" /\ error = ""
  /\ BadRows # {} /\ BadRows # 1..Len(req.attendance.rows)
  /\ Len(counts_out) >= 1 /\ Len(lecture_dates) = 1
  /\ matrix_file.written /\ Len(matrix_file.rows) >= 1

\* C10: in the matrix, for every identity each date column holds 1 if the
\* identity has a record on that date in the deduplicated window and 0
\* otherwise; total_count is the sum of the row's indicators, the number of
\* selected dates the identity attended, and equals week1_count +
\* week2_count of the identity in the counts table.
C10_MatrixRows ==
  matrix_file.written =>
    \A i \in 1..Len(matrix_file.rows) :
      LET m == matrix_file.rows[i] IN
      notna(m.identity) =>
        /\ Len(m.cells) = Len(six_dates)
        /\ \A k \in 1..Len(six_dates) :
             m.cells[k] = IF six_dates[k] \in AttendedBy(m.identity) THEN 1 ELSE 0
        /\ m.total_count = SumSeq(m.cells)
        /\ m.total_count = Cardinality(AttendedBy(m.identity) \cap Range(six_dates))
        /\ \E k \in 1..Len(counts_out) :
             /\ counts_out[k].identity = m.identity
             /\ m.total_count = counts_out[k].week1_count + counts_out[k].week2_count

\* seven lecture dates; one identity attended all seven and has total 6, the
\* other attended some and has a 0 column
C10_Witness ==
  /\ matrix_file.written /\ Len(lecture_dates) = 7 /\ Len(six_dates) = 6
  /\ \E i \in 1..Len(matrix_file.rows) :
        /\ notna(matrix_file.rows[i].identity)
        /\ Cardinality(AttendedBy(matrix_file.rows[i].identity)) = 7
        /\ matrix_file.rows[i].total_count = 6
  /\ \E i \in 1..Len(matrix_file.rows) :
        /\ notna(matrix_file.rows[i].identity)
        /\ matrix_file.rows[i].total_count \in 1..5
        /\ 0 \in Range(matrix_file.rows[i].cells)

InFlight(r) == inv[r].pc \in {"stamped", "counts_written", "matrix_written"}

\* C8: two invocations of process that run concurrently write their counts
\* and matrix outputs to distinct paths, so no output file is written by two
\* invocations, also with the same out_prefix within the same second.
C8_DistinctOutputPaths ==
  /\ \A r1, r2 \in 1..NumRequests :
       (r1 # r2 /\ InFlight(r1) /\ InFlight(r2)) =>
          /\ inv[r1].counts_path # inv[r2].counts_path
          /\ (inv[r1].matrix /\ inv[r2].matrix) =>
                inv[r1].matrix_path # inv[r2].matrix_path
  /\ \A f, g \in files : f.path = g.path => f.by = g.by

\* the loaded records that lie in the window
InWindow ==
  {i \in 1..Len(attendance_df) :
     in_window(attendance_df[i].date, parse_date(req.start_date),
               parse_date(req.end_date))}
\* the in-window records of the same identity on the same date as record i
SamePair(i) ==
  {j \in InWindow : /\ attendance_df[j].identity = attendance_df[i].identity
                    /\ attendance_df[j].date = attendance_df[i].date}
\* the record of the pair with the earliest timestamp, the first of them in
\* the original row order
EarliestOfPair(i) ==
  CHOOSE j \in SamePair(i) :
    \A k \in SamePair(i) :
      \/ attendance_df[j].ts < attendance_df[k].ts
      \/ (attendance_df[j].ts = attendance_df[k].ts /\ j <= k)

\* C11: after filter_weeks and dedup_same_day the table holds exactly one
\* record for each (identity, date) pair of the in-window input records, and
\* nothing else; the record is the one of the pair with the earliest
\* timestamp, and among equal timestamps the first in the original row order.
C11_EarliestCheckInWins ==
  (pc \in AfterFilter /\ error = "") =>
    /\ \A k \in 1..Len(filtered) :
         /\ filtered[k].idx \in InWindow
         /\ filtered[k] = attendance_df[filtered[k].idx]
    /\ \A i \in InWindow :
         /\ Cardinality({k \in 1..Len(filtered) :
                           /\ filtered[k].identity = attendance_df[i].identity
                           /\ filtered[k].date = attendance_df[i].date}) = 1
         /\ \E k \in 1..Len(filtered) : filtered[k].idx = EarliestOfPair(i)

\* three check-ins of one student on one day: a late one first, then two at
\* the same earlier time; the second row is the one kept
C11_Witness ==
  /\ pc \in AfterFilter /\ error = ""
  /\ Len(attendance_df) = 3 /\ InWindow = {1, 2, 3}
  /\ SamePair(1) = {1, 2, 3}
  /\ attendance_df[1].ts > attendance_df[2].ts
  /\ attendance_df[2].ts = attendance_df[3].ts
  /\ Len(filtered) = 1 /\ filtered[1].idx = 2

\* the window filter and deduplicator of the request, applied to a table
FilterAndDedup(df) ==
  dedup_same_day(filter_weeks(df, req.start_date, req.end_date))

\* C12: filter_weeks then dedup_same_day with the same window, applied to
\* its own output, gives that output again: the same records in the same
\* order, none removed.
C12_FilterDedupIdempotent ==
  (pc \in AfterFilter /\ error = "") => FilterAndDedup(filtered) = filtered

\* a first pass that removed a record, did not keep the first row in front,
\* and left two students with the same timestamp on the same day
C12_Witness ==
  /\ pc \in AfterFilter /\ error = ""
  /\ Len(filtered) >= 2 /\ Len(filtered) < Len(attendance_df)
  /\ \E a, b \in 1..Len(filtered) :
        /\ a < b /\ filtered[a].ts = filtered[b].ts
        /\ filtered[a].identity # filtered[b].identity
  /\ filtered[1].idx # 1

\* the derived identities of the records of the window
WindowIdentities == {filtered[i].identity : i \in 1..Len(filtered)}

\* C13: once the attendance columns are validated every record has a
\* non-null derived identity, and the counts table has exactly one row for
\* each distinct derived identity of the filtered records: no record of the
\* window is without a counts row, also when its ID, email and name are all
\* missing.
C13_EveryRecordCounted ==
  /\ pc \in {"loaded"} \cup AfterFilter =>
       \A i \in 1..Len(attendance_df) : notna(attendance_df[i].identity)
  /\ pc \in AfterCounts =>
       /\ {counts_out[k].identity : k \in 1..Len(counts_out)} = WindowIdentities
       /\ Len(counts_out) = Cardinality(WindowIdentities)

\* the domain typos and their corrections, as text
DomainTypos ==
  << [bad  |-> <<"@", "u", "c", "s", "c", "e", "d", "u">>,
      good |-> <<"@", "u", "c", "s", "c", ".", "e", "d", "u">>],
     [bad  |-> <<"@", "u", "c", "s", "c", ".", "e", "f", "u">>,
      good |-> <<"@", "u", "c", "s", "c", ".", "e", "d", "u">>],
     [bad  |-> <<"@", "u", "c", "s", "c", ".", "i", "r", "g">>,
      good |-> <<"@", "u", "c", "s", "c", ".", "e", "d", "u">>],
     [bad  |-> <<"@", "u", "s", "c", "s", ".", "e", "d", "u">>,
      good |-> <<"@", "u", "c", "s", "c", ".", "e", "d", "u">>],
     [bad  |-> <<"@", "g", "m", "a", "i", "l", ".", "c", "o", "n">>,
      good |-> <<"@", "g", "m", "a", "i", "l", ".", "c", "o", "m">>] >>

EndsWith(s, t) == Len(s) >= Len(t) /\ SubSeq(s, Len(s) - Len(t) + 1, Len(s)) = t

\* trim, lowercase, remove spaces
Cleaned(email) == RemoveSpaces(Lower(Strip(email)))

\* the cleaned address with a mistyped domain replaced by its correction
Corrected(email) ==
  LET e    == Cleaned(email)
      hits == {k \in 1..Len(DomainTypos) : EndsWith(e, DomainTypos[k].bad)}
  IN IF hits = {} THEN e
     ELSE LET k == CHOOSE k \in hits : TRUE
          IN SubSeq(e, 1, Len(e) - Len(DomainTypos[k].bad)) \o DomainTypos[k].good

\* C14: normalize_email trims, lowercases and removes spaces, then rewrites
\* every domain typo of its correction list: an address ending in @ucscedu,
\* @ucsc.efu, @ucsc.irg or @uscs.edu comes out ending in @ucsc.edu, one ending
\* in @gmail.con comes out ending in @gmail.com, and an address that matches
\* no typo is unchanged beyond trim, lowercase and space removal.
C14_DomainTyposFixed ==
  (pc \in {"loaded"} \cup AfterFilter /\ "email" \in req.attendance.cols) =>
    \A i \in 1..Len(attendance_df) :
      notna(req.attendance.rows[i].email) =>
        attendance_df[i].email = Corrected(req.attendance.rows[i].email)

\* C15: in join modes auto, id and email the joined output has exactly one
\* row per roster entry, in roster order, so that students_total is the
\* roster size; no roster entry is duplicated, also when several counts rows
\* share a join key value or the key is missing on both sides.
C15_OneRowPerRosterEntry ==
  (/\ req.has_gradebook /\ req.join_mode \in {"auto", "id", "email"}
   /\ pc \in AfterJoin)
    => /\ Len(output_df.rows) = Len(req.gradebook.rows)
       /\ \A i \in 1..Len(output_df.rows) : output_df.rows[i].ridx = i
       /\ pc = "done" => summary.students_total = Len(req.gradebook.rows)

====
